---- MODULE Spec2Model ----
(***************************************************************************)
(* Service lifecycle of skeleton-service.                                  *)
(*                                                                         *)
(* Two entry points live in cmd/main.go:                                   *)
(*   - the standalone main(): setupTracing, a goroutine running            *)
(*     server.ListenAndServe, then gracefulShutdown(server, logger);       *)
(*   - the platform based main()/run(): platform.Run(...) and a mapping    *)
(*     of its error to the exit code.                                      *)
(* The variable `variant` selects the entry point of a behaviour.          *)
(*                                                                         *)
(* The process is modelled as the main goroutine (mainPc), the serving     *)
(* goroutine (srvPc), the operating system delivering signals, the HTTP    *)
(* clients (inflight) and the clock of the shutdown context (elapsed).     *)
(***************************************************************************)
EXTENDS Integers, Sequences, FiniteSets, TLC

\* ------------------------------------------------------------------ bounds
MaxSignals == 2
MaxInflight == 2
\* how many times a client of package server calls Server.Shutdown
MaxShutdownCalls == 2
\* concurrent HTTP requests
MaxRequests == 2
\* ticks of the example worker before its context is cancelled
MaxTicks == 6

\* -------------------------------------------------------- program constants
\* context.WithTimeout(context.Background(), 30*time.Second)
ShutdownTimeout == 30
\* platform.ExitCodeSuccess / platform.ExitCodeFailure as returned by run()
ExitCodeSuccess == 0
ExitCodeFailure == 1

Signals == {"SIGINT", "SIGTERM"}
Variants == {"standalone", "platform"}
\* exitStatus / retCode before the process has one
NoStatus == 0 - 1

VARIABLES
    variant,          \* which entry point runs
    mainPc,           \* position of the main goroutine
    srvPc,            \* position of the serving goroutine (go func in main)
    quit,             \* gracefulShutdown: quit := make(chan os.Signal, 1)
    notified,         \* signal.Notify(quit, SIGINT, SIGTERM) is in force
    sigCount,         \* signals delivered to the process so far
    inShutdown,       \* http.Server: Shutdown has been called
    listening,        \* http.Server: the listener is bound and accepting
    inflight,         \* requests being served
    elapsed,          \* seconds since the shutdown context was created
    shutdownCalls,    \* number of calls of server.Shutdown
    shutdownErr,      \* result of server.Shutdown: "none", "nil", "timeout"
    lasErr,           \* result of ListenAndServe: "none", "closed", "bind", "runtime"
    runErr,           \* result of platform.Run: "none", "nil", "err"
    retCode,          \* value returned by run()
    log,              \* lifecycle log entries, in order
    exited,           \* the process has terminated
    exitStatus,       \* its exit status
    exitCause,        \* which step terminated it
    tracerShutdowns,  \* runs of the deferred tracerProvider.Shutdown / obs.Shutdown
    sigWhileServing,  \* history: a signal was delivered while the server was serving
    sigDuringShutdown, \* history: a signal was delivered after the first was received
    recvSig,          \* history: the signal main took from quit, "none" before
    environ,          \* the process environment: key -> [set, val]
    envPaas,          \* the file .env.paas: [exists, vars]
    envOverride,      \* the file .env.override: [exists, vars]
    ret,              \* the last call of package env and its result
    req,              \* server.New's router: request -> its position in the chain
    met,              \* a *metrics.Metrics and the result of the last call on it
    mreq,             \* metrics middleware: request -> its position in it
    wk                \* example.Worker.Run: position, context, log, result

vars == <<variant, mainPc, srvPc, quit, notified, sigCount, inShutdown, listening,
          inflight, elapsed, shutdownCalls, shutdownErr, lasErr, runErr, retCode,
          log, exited, exitStatus, exitCause, tracerShutdowns, sigWhileServing,
          sigDuringShutdown, recvSig, environ, envPaas, envOverride, ret,
          req, met, mreq, wk>>

serverVars == <<inShutdown, listening, inflight, elapsed, shutdownCalls, shutdownErr, lasErr>>
exitVars == <<exited, exitStatus, exitCause>>
histVars == <<sigWhileServing, sigDuringShutdown, recvSig>>
envVars == <<environ, envPaas, envOverride, ret>>
libVars == <<req, met, mreq, wk>>
sigVars == <<quit, notified, sigCount>>
platformVars == <<runErr, retCode>>
lifecycleVars == <<variant, mainPc, srvPc, sigVars, serverVars, platformVars, log, exitVars,
                   tracerShutdowns, histVars>>

\* ------------------------------------------------------------------ helpers

\* The coordinator has taken a signal from quit and has not returned yet.
ShutdownPcs == {"logShutting", "callShutdown", "inShutdown", "afterShutdown"}

\* Default disposition of SIGINT/SIGTERM in a Go program without signal.Notify:
\* the process dies from the signal.
SignalExitStatus(s) == 128 + (IF s = "SIGINT" THEN 2 ELSE 15)

\* `err != nil && err != http.ErrServerClosed`
IsFatalAnyError(err) == err # "none"
IsFatalNotBind(err) == err \notin {"none", "closed", "bind"}
IsFatal(err) == err \notin {"none", "closed"}

\* `<-quit` can proceed when the channel holds a signal.
QuitReadyNonBlocking(q) == TRUE
QuitReady(q) == Len(q) > 0

\* gracefulShutdown never calls signal.Stop/Reset: the registration stays.
NotifiedAfterReceiveStop(n) == FALSE
NotifiedAfterReceive(n) == n

\* `<-quit` discards the value received: whichever signal it is, the next
\* statement is logger.Info("Shutting down server...").
AfterReceive(sig) == "logShutting"

\* signal.Notify's channel send does not block: a signal is dropped when
\* the buffer of capacity 1 is full.
Deliver(q, s) == IF Len(q) < 1 THEN Append(q, s) ELSE q

\* `if err != nil { ... return platform.ExitCodeFailure }; return platform.ExitCodeSuccess`
RunExitCode(err) == IF err # "nil" THEN ExitCodeFailure ELSE ExitCodeSuccess

\* Shutdown under a context that is never done (context.Background())
ShutdownResultNoDeadline(active, secs) == IF active = 0 THEN "nil" ELSE "none"

\* http.Server.Shutdown polls: nil once no connection is active, ctx.Err()
\* once the context is done.
ShutdownResult(active, secs) ==
    IF active = 0 THEN "nil"
    ELSE IF secs >= ShutdownTimeout THEN "timeout"
    ELSE "none"

Exit(status, cause) ==
    /\ exited' = TRUE
    /\ exitStatus' = status
    /\ exitCause' = cause

\* ---------------------------------------------------------- package env
\* Strings are sequences of characters, so that a comparison with a literal
\* and a parse are computed rather than assumed.
Keys == {"K1", "K2"}

StrTrue == <<"t", "r", "u", "e">>
StrFalse == <<"f", "a", "l", "s", "e">>
StrYes == <<"y", "e", "s">>
StrNo == <<"n", "o">>
StrOn == <<"o", "n">>
StrOff == <<"o", "f", "f">>
StrUpperTrue == <<"T", "R", "U", "E">>

\* values a variable may hold in the environment
EnvValues == {<<>>, StrTrue, <<"1">>, StrYes, StrOn, StrFalse, <<"0">>, StrNo, StrOff,
              StrUpperTrue, <<"4", "2">>, <<"-", "7">>, <<"a", "b">>}

\* values written in .env.paas and in .env.override
PaasValue == <<"4", "2">>
OverrideValue == StrOn

StringDefaults == {<<"d">>, <<>>}
IntDefaults == {0, 15}

Unset == [set |-> FALSE, val |-> <<>>]
SetTo(v) == [set |-> TRUE, val |-> v]

\* os.Getenv: the value, "" when the variable is not present
Getenv(e, k) == e[k].val
\* os.LookupEnv: whether the variable is present
LookupEnv(e, k) == e[k].set

\* func GetString(key, defaultValue string) string
GetStringLookup(e, k, d) == IF LookupEnv(e, k) THEN Getenv(e, k) ELSE d
GetString(e, k, d) == IF Getenv(e, k) # <<>> THEN Getenv(e, k) ELSE d

\* func GetBool(key string, defaultValue bool) bool
GetBoolParseBool(e, k, d) ==
    LET value == Getenv(e, k) IN
    IF value \in {StrTrue, <<"1">>, StrUpperTrue} THEN TRUE
    ELSE IF value \in {StrFalse, <<"0">>} THEN FALSE
    ELSE d
GetBool(e, k, d) ==
    LET value == Getenv(e, k) IN
    IF value # <<>>
    THEN CASE value \in {StrTrue, <<"1">>, StrYes, StrOn} -> TRUE
           [] value \in {StrFalse, <<"0">>, StrNo, StrOff} -> FALSE
           [] OTHER -> d
    ELSE d

DigitChars == {"0", "1", "2", "3", "4", "5", "6", "7", "8", "9"}
DigitVal(c) ==
    CASE c = "0" -> 0 [] c = "1" -> 1 [] c = "2" -> 2 [] c = "3" -> 3 [] c = "4" -> 4
      [] c = "5" -> 5 [] c = "6" -> 6 [] c = "7" -> 7 [] c = "8" -> 8 [] OTHER -> 9

RECURSIVE DigitsValue(_)
DigitsValue(str) ==
    IF str = <<>> THEN 0
    ELSE 10 * DigitsValue(SubSeq(str, 1, Len(str) - 1)) + DigitVal(str[Len(str)])

AllDigits(str) == str # <<>> /\ \A i \in 1..Len(str) : str[i] \in DigitChars

\* strconv.Atoi / strconv.ParseInt(value, 10, 64): an optional sign, then digits
AtoiOk(str) ==
    IF str # <<>> /\ str[1] \in {"-", "+"} THEN AllDigits(Tail(str)) ELSE AllDigits(str)
Atoi(str) ==
    IF str[1] = "-" THEN 0 - DigitsValue(Tail(str))
    ELSE IF str[1] = "+" THEN DigitsValue(Tail(str))
    ELSE DigitsValue(str)

\* func GetInt(key string, defaultValue int) int
GetInt(e, k, d) ==
    LET value == Getenv(e, k) IN
    IF value # <<>> /\ AtoiOk(value) THEN Atoi(value) ELSE d

\* func GetInt64(key string, defaultValue int64) int64
GetInt64(e, k, d) ==
    LET value == Getenv(e, k) IN
    IF value # <<>> /\ AtoiOk(value) THEN Atoi(value) ELSE d

\* func MustGetString(key string) string: the value, or a panic
MustGetStringLookup(e, k) ==
    IF LookupEnv(e, k) THEN [panic |-> FALSE, val |-> Getenv(e, k)]
    ELSE [panic |-> TRUE, val |-> <<>>]
MustGetString(e, k) ==
    IF Getenv(e, k) # <<>> THEN [panic |-> FALSE, val |-> Getenv(e, k)]
    ELSE [panic |-> TRUE, val |-> <<>>]

\* func IsSet(key string) bool
IsSetNonEmpty(e, k) == Getenv(e, k) # <<>>
IsSet(e, k) == LookupEnv(e, k)

\* A file of KEY=value lines: the keys it defines, each with the file's value.
NoFile == [exists |-> FALSE, keys |-> {}]
EnvFiles == {NoFile} \cup {[exists |-> TRUE, keys |-> ks] : ks \in SUBSET Keys}

\* godotenv.Load semantics: a variable already present is kept
LoadFile(e, f, v) ==
    [k \in Keys |-> IF f.exists /\ k \in f.keys /\ ~e[k].set THEN SetTo(v) ELSE e[k]]
\* godotenv.Overload semantics: the file's value replaces the variable
OverloadFile(e, f, v) ==
    [k \in Keys |-> IF f.exists /\ k \in f.keys THEN SetTo(v) ELSE e[k]]

\* func LoadEnvFiles(): .env.paas first, then .env.override over it; a missing
\* file is skipped
LoadEnvFilesNoOverride(e, paas, override) ==
    LoadFile(LoadFile(e, paas, PaasValue), override, OverrideValue)
LoadEnvFilesResult(e, paas, override) ==
    OverloadFile(LoadFile(e, paas, PaasValue), override, OverrideValue)

NoCall == [op |-> "none", key |-> "K1", defS |-> <<>>, defB |-> FALSE, defI |-> 0,
           resS |-> <<>>, resB |-> FALSE, resI |-> 0, panic |-> FALSE]

\* the environment-related state of a process that never touches package env
EnvIdle ==
    /\ environ = [k \in Keys |-> Unset]
    /\ envPaas = NoFile
    /\ envOverride = NoFile
    /\ ret = NoCall

\* ------------------------------------------- router, metrics, worker: state
Reqs == 1..MaxRequests

\* a request that has not arrived
NoRequest == [phase |-> "new", idx |-> 0, kind |-> "none", span |-> FALSE,
              traceId |-> "unread", entries |-> 0, visited |-> <<>>]

\* no *Metrics built yet
NoMetrics == [made |-> FALSE, enabled |-> FALSE, registry |-> "nil", gauge |-> 0,
              mw |-> "none", op |-> "none", res |-> "none"]

\* a request outside the metrics middleware
OutOfMiddleware == [pc |-> "out", outcome |-> "none", incs |-> 0, decs |-> 0]

\* Worker.Run not called
WorkerIdle == [pc |-> "idle", ctxErr |-> "nil", log |-> <<>>, result |-> "none",
               ticksAfterDone |-> 0]

LibIdle ==
    /\ req = [r \in Reqs |-> NoRequest]
    /\ met = NoMetrics
    /\ mreq = [r \in Reqs |-> OutOfMiddleware]
    /\ wk = WorkerIdle

\* ------------------------------------------------------------------ Init
\* the lifecycle state at process start, for the entry points in vs
LifecycleStart(vs) ==
    /\ variant \in vs
    /\ mainPc = CASE variant = "standalone" -> "setupTracing"
                  [] variant = "platform" -> "obsInit"
                  [] OTHER -> "harness"
    /\ srvPc = "idle"
    /\ quit = <<>>
    /\ notified = FALSE
    /\ sigCount = 0
    /\ inShutdown = FALSE
    /\ listening = FALSE
    /\ inflight = 0
    /\ elapsed = 0
    /\ shutdownCalls = 0
    /\ shutdownErr = "none"
    /\ lasErr = "none"
    /\ runErr = "none"
    /\ retCode = NoStatus
    /\ log = <<>>
    /\ exited = FALSE
    /\ exitStatus = NoStatus
    /\ exitCause = "none"
    /\ tracerShutdowns = 0
    /\ sigWhileServing = FALSE
    /\ sigDuringShutdown = FALSE
    /\ recvSig = "none"

Init == LifecycleStart(Variants) /\ EnvIdle /\ LibIdle

\* ------------------------------------------------- standalone main goroutine

\* tracerProvider, err := setupTracing(); err == nil
SetupTracingOk ==
    /\ ~exited /\ mainPc = "setupTracing"
    /\ mainPc' = "startServer"
    /\ log' = Append(log, "Starting service")
    /\ UNCHANGED <<envVars, libVars, variant, srvPc, sigVars, serverVars, platformVars, exitVars,
                   tracerShutdowns, histVars>>

\* logger.WithError(err).Fatal("Failed to setup tracing")
SetupTracingFail ==
    /\ ~exited /\ mainPc = "setupTracing"
    /\ log' = Append(log, "Failed to setup tracing")
    /\ Exit(1, "setupFatal")
    /\ UNCHANGED <<envVars, libVars, variant, mainPc, srvPc, sigVars, serverVars, platformVars,
                   tracerShutdowns, histVars>>

\* the call without `go`: main itself runs ListenAndServe and waits for it
LaunchServerSync ==
    /\ ~exited /\ mainPc = "startServer"
    /\ srvPc' = "launched"
    /\ mainPc' = "inListenAndServe"
    /\ UNCHANGED <<envVars, libVars, variant, sigVars, serverVars, platformVars, log, exitVars,
                   tracerShutdowns, histVars>>

\* go func() { ... server.ListenAndServe() ... }()
LaunchServer ==
    /\ ~exited /\ mainPc = "startServer"
    /\ srvPc' = "launched"
    /\ mainPc' = "notify"
    /\ UNCHANGED <<envVars, libVars, variant, sigVars, serverVars, platformVars, log, exitVars,
                   tracerShutdowns, histVars>>

\* gracefulShutdown: quit := make(chan os.Signal, 1); signal.Notify(quit, ...)
SignalNotify ==
    /\ ~exited /\ mainPc = "notify"
    /\ notified' = TRUE
    /\ mainPc' = "wait"
    /\ UNCHANGED <<envVars, libVars, variant, srvPc, quit, sigCount, serverVars, platformVars, log,
                   exitVars, tracerShutdowns, histVars>>

\* <-quit
ReceiveQuit ==
    /\ ~exited /\ mainPc = "wait"
    /\ QuitReady(quit)
    /\ quit' = SubSeq(quit, 2, Len(quit))
    /\ notified' = NotifiedAfterReceive(notified)
    /\ recvSig' = IF Len(quit) > 0 THEN quit[1] ELSE "none"
    /\ mainPc' = AfterReceive(recvSig')
    /\ UNCHANGED <<envVars, libVars, variant, srvPc, sigCount, serverVars, platformVars, log, exitVars,
                   tracerShutdowns, sigWhileServing, sigDuringShutdown>>

\* logger.Info("Shutting down server...")
LogShuttingDown ==
    /\ ~exited /\ mainPc = "logShutting"
    /\ log' = Append(log, "Shutting down server...")
    /\ mainPc' = "callShutdown"
    /\ UNCHANGED <<envVars, libVars, variant, srvPc, sigVars, serverVars, platformVars, exitVars,
                   tracerShutdowns, histVars>>

\* ctx, cancel := context.WithTimeout(..., 30*time.Second); server.Shutdown(ctx)
\* is entered: the server is marked as shutting down and its listeners close.
CallShutdown ==
    /\ ~exited /\ mainPc = "callShutdown"
    /\ shutdownCalls' = shutdownCalls + 1
    /\ inShutdown' = TRUE
    /\ listening' = FALSE
    /\ elapsed' = 0
    /\ mainPc' = "inShutdown"
    /\ UNCHANGED <<envVars, libVars, variant, srvPc, sigVars, inflight, shutdownErr, lasErr, platformVars,
                   log, exitVars, tracerShutdowns, histVars>>

\* server.Shutdown(ctx) returns
ShutdownReturn ==
    /\ ~exited /\ mainPc = "inShutdown"
    /\ ShutdownResult(inflight, elapsed) # "none"
    /\ shutdownErr' = ShutdownResult(inflight, elapsed)
    /\ mainPc' = "afterShutdown"
    /\ UNCHANGED <<envVars, libVars, variant, srvPc, sigVars, inShutdown, listening, inflight, elapsed,
                   shutdownCalls, lasErr, platformVars, log, exitVars, tracerShutdowns,
                   histVars>>

\* the error branch ending in os.Exit(1) in place of `return`
LogShutdownResultOsExit ==
    /\ ~exited /\ mainPc = "afterShutdown"
    /\ log' = Append(log, IF shutdownErr # "nil" THEN "Server forced to shutdown"
                          ELSE "Server exited gracefully")
    /\ IF shutdownErr # "nil"
       THEN /\ Exit(1, "shutdownError")
            /\ mainPc' = mainPc
       ELSE /\ mainPc' = "deferred"
            /\ UNCHANGED exitVars
    /\ UNCHANGED <<envVars, libVars, variant, srvPc, sigVars, serverVars, platformVars,
                   tracerShutdowns, histVars>>

\* the two branches exchanged: `if err == nil { ...Error(...); return }`
LogShutdownResultInverted ==
    /\ ~exited /\ mainPc = "afterShutdown"
    /\ log' = Append(log, IF shutdownErr = "nil" THEN "Server forced to shutdown"
                          ELSE "Server exited gracefully")
    /\ mainPc' = "deferred"
    /\ UNCHANGED <<envVars, libVars, variant, srvPc, sigVars, serverVars, platformVars, exitVars,
                   tracerShutdowns, histVars>>

\* if err != nil { logger...Error("Server forced to shutdown"); return }
\* logger.Info("Server exited gracefully")
LogShutdownResult ==
    /\ ~exited /\ mainPc = "afterShutdown"
    /\ log' = Append(log, IF shutdownErr # "nil" THEN "Server forced to shutdown"
                          ELSE "Server exited gracefully")
    /\ mainPc' = "deferred"
    /\ UNCHANGED <<envVars, libVars, variant, srvPc, sigVars, serverVars, platformVars, exitVars,
                   tracerShutdowns, histVars>>

\* the deferred function with logger...Fatal in place of logger...Error
TracerShutdownFatal ==
    /\ ~exited /\ mainPc = "deferred"
    /\ tracerShutdowns' = tracerShutdowns + 1
    /\ mainPc' = "mainReturn"
    /\ \/ UNCHANGED exitVars
       \/ Exit(1, "tracerFatal")
    /\ UNCHANGED <<envVars, libVars, variant, srvPc, sigVars, serverVars, platformVars, log, histVars>>

\* defer func() { tracerProvider.Shutdown(context.Background()) }()
TracerShutdown ==
    /\ ~exited /\ mainPc = "deferred"
    /\ tracerShutdowns' = tracerShutdowns + 1
    /\ mainPc' = "mainReturn"
    /\ UNCHANGED <<envVars, libVars, variant, srvPc, sigVars, serverVars, platformVars, log, exitVars,
                   histVars>>

\* main returns: the Go runtime exits the process with status 0.
MainReturn ==
    /\ ~exited /\ mainPc = "mainReturn"
    /\ Exit(0, "mainReturn")
    /\ UNCHANGED <<envVars, libVars, variant, mainPc, srvPc, sigVars, serverVars, platformVars, log,
                   tracerShutdowns, histVars>>

\* ------------------------------------------------------- serving goroutine

\* logger.WithField("port", port).Info("Starting HTTP server")
LogStartingServer ==
    /\ ~exited /\ srvPc = "launched"
    /\ log' = Append(log, "Starting HTTP server")
    /\ srvPc' = "listenAndServe"
    /\ UNCHANGED <<envVars, libVars, variant, mainPc, sigVars, serverVars, platformVars, exitVars,
                   tracerShutdowns, histVars>>

\* server.ListenAndServe(): ErrServerClosed when already shutting down
ListenAfterShutdown ==
    /\ ~exited /\ srvPc = "listenAndServe"
    /\ inShutdown
    /\ lasErr' = "closed"
    /\ srvPc' = "returned"
    /\ UNCHANGED <<envVars, libVars, variant, mainPc, sigVars, inShutdown, listening, inflight, elapsed,
                   shutdownCalls, shutdownErr, platformVars, log, exitVars,
                   tracerShutdowns, histVars>>

\* server.ListenAndServe(): net.Listen succeeds, the accept loop runs
ListenOk ==
    /\ ~exited /\ srvPc = "listenAndServe"
    /\ ~inShutdown
    /\ listening' = TRUE
    /\ srvPc' = "serving"
    /\ UNCHANGED <<envVars, libVars, variant, mainPc, sigVars, inShutdown, inflight, elapsed, shutdownCalls,
                   shutdownErr, lasErr, platformVars, log, exitVars, tracerShutdowns,
                   histVars>>

\* server.ListenAndServe(): net.Listen fails (address already in use)
ListenBindFail ==
    /\ ~exited /\ srvPc = "listenAndServe"
    /\ ~inShutdown
    /\ lasErr' = "bind"
    /\ srvPc' = "returned"
    /\ UNCHANGED <<envVars, libVars, variant, mainPc, sigVars, inShutdown, listening, inflight, elapsed,
                   shutdownCalls, shutdownErr, platformVars, log, exitVars,
                   tracerShutdowns, histVars>>

\* the accept loop ends because Shutdown closed the listener: ErrServerClosed
ServeClosed ==
    /\ ~exited /\ srvPc = "serving"
    /\ inShutdown
    /\ lasErr' = "closed"
    /\ srvPc' = "returned"
    /\ UNCHANGED <<envVars, libVars, variant, mainPc, sigVars, inShutdown, listening, inflight, elapsed,
                   shutdownCalls, shutdownErr, platformVars, log, exitVars,
                   tracerShutdowns, histVars>>

\* the accept loop ends with a permanent Accept error
ServeRuntimeError ==
    /\ ~exited /\ srvPc = "serving"
    /\ ~inShutdown
    /\ lasErr' = "runtime"
    /\ listening' = FALSE
    /\ srvPc' = "returned"
    /\ UNCHANGED <<envVars, libVars, variant, mainPc, sigVars, inShutdown, inflight, elapsed, shutdownCalls,
                   shutdownErr, platformVars, log, exitVars, tracerShutdowns, histVars>>

\* logger.WithError(err).Error(...) in place of Fatal: the goroutine just ends
ServeFatalNoExit ==
    /\ ~exited /\ srvPc = "returned"
    /\ IsFatal(lasErr)
    /\ log' = Append(log, "Failed to start server")
    /\ srvPc' = "fatal"
    /\ UNCHANGED <<envVars, libVars, variant, mainPc, sigVars, serverVars, platformVars, exitVars,
                   tracerShutdowns, histVars>>

\* a retry loop around ListenAndServe in place of Fatal
ServeRetry ==
    /\ ~exited /\ srvPc = "returned"
    /\ IsFatal(lasErr)
    /\ srvPc' = "listenAndServe"
    /\ UNCHANGED <<envVars, libVars, variant, mainPc, sigVars, serverVars, platformVars, log, exitVars,
                   tracerShutdowns, histVars>>

\* logger.WithError(err).Fatal("Failed to start server"): log, then os.Exit(1)
ServeFatal ==
    /\ ~exited /\ srvPc = "returned"
    /\ IsFatal(lasErr)
    /\ log' = Append(log, "Failed to start server")
    /\ srvPc' = "fatal"
    /\ Exit(1, "fatal")
    /\ UNCHANGED <<envVars, libVars, variant, mainPc, sigVars, serverVars, platformVars,
                   tracerShutdowns, histVars>>

\* the condition is false: the goroutine's function returns
ServeDone ==
    /\ ~exited /\ srvPc = "returned"
    /\ ~IsFatal(lasErr)
    /\ srvPc' = "done"
    /\ UNCHANGED <<envVars, libVars, variant, mainPc, sigVars, serverVars, platformVars, log, exitVars,
                   tracerShutdowns, histVars>>

\* ------------------------------------------------------------ environment

\* The operating system delivers SIGINT or SIGTERM to the process.
Signal ==
    /\ ~exited /\ sigCount < MaxSignals
    /\ \E s \in Signals :
        /\ sigCount' = sigCount + 1
        /\ sigWhileServing' = (sigWhileServing \/ (srvPc = "serving" /\ listening))
        /\ sigDuringShutdown' = (sigDuringShutdown \/ mainPc \in ShutdownPcs)
        /\ recvSig' = recvSig
        /\ IF notified
           THEN /\ quit' = Deliver(quit, s)
                /\ UNCHANGED exitVars
           ELSE /\ quit' = quit
                /\ Exit(SignalExitStatus(s), "signalDefault")
    /\ UNCHANGED <<envVars, libVars, variant, mainPc, srvPc, notified, serverVars, platformVars, log,
                   tracerShutdowns>>

\* a client's request is accepted
RequestArrive ==
    /\ ~exited /\ listening /\ srvPc = "serving" /\ ~inShutdown
    /\ inflight < MaxInflight
    /\ inflight' = inflight + 1
    /\ UNCHANGED <<envVars, libVars, variant, mainPc, srvPc, sigVars, inShutdown, listening, elapsed,
                   shutdownCalls, shutdownErr, lasErr, platformVars, log, exitVars,
                   tracerShutdowns, histVars>>

\* a handler returns
RequestDone ==
    /\ ~exited /\ inflight > 0
    /\ inflight' = inflight - 1
    /\ UNCHANGED <<envVars, libVars, variant, mainPc, srvPc, sigVars, inShutdown, listening, elapsed,
                   shutdownCalls, shutdownErr, lasErr, platformVars, log, exitVars,
                   tracerShutdowns, histVars>>

\* one second of the shutdown context's 30 passes
Tick ==
    /\ ~exited /\ mainPc \in {"inShutdown", "harnessInShutdown"}
    /\ elapsed < ShutdownTimeout
    /\ elapsed' = elapsed + 1
    /\ UNCHANGED <<envVars, libVars, variant, mainPc, srvPc, sigVars, inShutdown, listening, inflight,
                   shutdownCalls, shutdownErr, lasErr, platformVars, log, exitVars,
                   tracerShutdowns, histVars>>

\* ------------------------------------------------- platform based main/run

\* obs := observability.MustNew(ctx); log.Info(ctx, "Initializing service");
\* platform.Run(ctx, ..., platform.WithEnableSignalHandling(true), ...) is entered
PlatformRunCall ==
    /\ ~exited /\ mainPc = "obsInit"
    /\ log' = Append(log, "Initializing service")
    /\ notified' = TRUE
    /\ mainPc' = "platformRun"
    /\ UNCHANGED <<envVars, libVars, variant, srvPc, quit, sigCount, serverVars, platformVars, exitVars,
                   tracerShutdowns, histVars>>

\* platform.Run returns: nil or an error
PlatformRunReturn ==
    /\ ~exited /\ mainPc = "platformRun"
    /\ \E e \in {"nil", "err"} : runErr' = e
    /\ mainPc' = "runReturned"
    /\ UNCHANGED <<envVars, libVars, variant, srvPc, sigVars, serverVars, retCode, log, exitVars,
                   tracerShutdowns, histVars>>

\* if err != nil { log.Error(..., "Application exited with error"); return ExitCodeFailure }
\* log.Info(ctx, "Service stopped gracefully"); return ExitCodeSuccess
RunReturn ==
    /\ ~exited /\ mainPc = "runReturned"
    /\ log' = Append(log, IF runErr # "nil" THEN "Application exited with error"
                          ELSE "Service stopped gracefully")
    /\ retCode' = RunExitCode(runErr)
    /\ mainPc' = "deferObs"
    /\ UNCHANGED <<envVars, libVars, variant, srvPc, sigVars, serverVars, runErr, exitVars,
                   tracerShutdowns, histVars>>

\* defer obs.Shutdown(ctx)
ObsShutdown ==
    /\ ~exited /\ mainPc = "deferObs"
    /\ tracerShutdowns' = tracerShutdowns + 1
    /\ mainPc' = "osExit"
    /\ UNCHANGED <<envVars, libVars, variant, srvPc, sigVars, serverVars, platformVars, log, exitVars,
                   histVars>>

\* os.Exit(run())
OsExit ==
    /\ ~exited /\ mainPc = "osExit"
    /\ Exit(retCode, "osExit")
    /\ UNCHANGED <<envVars, libVars, variant, mainPc, srvPc, sigVars, serverVars, platformVars, log,
                   tracerShutdowns, histVars>>

\* ------------------------------------------------------------------ Next
\* ------------------------------------------------ a client of package server
\* A caller that owns a *server.Server from New and calls StartAsync at most
\* once and Shutdown any number of times, one call after the other.

\* srv.StartAsync(): go func() { s.Start() ... }()
HarnessStartAsync ==
    /\ ~exited /\ mainPc = "harness" /\ srvPc = "idle"
    /\ srvPc' = "launched"
    /\ UNCHANGED <<envVars, libVars, variant, mainPc, sigVars, serverVars, platformVars, log, exitVars,
                   tracerShutdowns, histVars>>

\* Shutdown on a Server whose http.Server is built only by Start: a nil
\* pointer dereference when Start was never called
HarnessShutdownNilServer ==
    /\ ~exited /\ mainPc = "harness" /\ shutdownCalls < MaxShutdownCalls
    /\ log' = Append(log, "Shutting down HTTP server...")
    /\ shutdownCalls' = shutdownCalls + 1
    /\ shutdownErr' = "none"
    /\ IF srvPc = "idle"
       THEN /\ Exit(2, "panic")
            /\ UNCHANGED <<mainPc, inShutdown, listening, elapsed>>
       ELSE /\ inShutdown' = TRUE
            /\ listening' = FALSE
            /\ elapsed' = 0
            /\ mainPc' = "harnessInShutdown"
            /\ UNCHANGED exitVars
    /\ UNCHANGED <<envVars, libVars, variant, srvPc, sigVars, inflight, lasErr, platformVars,
                   tracerShutdowns, histVars>>

\* func (s *Server) Shutdown(ctx): s.logger.Info("Shutting down HTTP server...")
\* and s.server.Shutdown(ctx) is entered: the http.Server is marked as shutting
\* down and its listeners, if any, close.
HarnessShutdown ==
    /\ ~exited /\ mainPc = "harness" /\ shutdownCalls < MaxShutdownCalls
    /\ log' = Append(log, "Shutting down HTTP server...")
    /\ shutdownCalls' = shutdownCalls + 1
    /\ shutdownErr' = "none"
    /\ inShutdown' = TRUE
    /\ listening' = FALSE
    /\ elapsed' = 0
    /\ mainPc' = "harnessInShutdown"
    /\ UNCHANGED <<envVars, libVars, variant, srvPc, sigVars, inflight, lasErr, platformVars, exitVars,
                   tracerShutdowns, histVars>>

\* return s.server.Shutdown(ctx)
HarnessShutdownReturn ==
    /\ ~exited /\ mainPc = "harnessInShutdown"
    /\ ShutdownResult(inflight, elapsed) # "none"
    /\ shutdownErr' = ShutdownResult(inflight, elapsed)
    /\ mainPc' = "harness"
    /\ UNCHANGED <<envVars, libVars, variant, srvPc, sigVars, inShutdown, listening, inflight, elapsed,
                   shutdownCalls, lasErr, platformVars, log, exitVars, tracerShutdowns,
                   histVars>>

ServerNext ==
    \/ HarnessStartAsync
    \/ HarnessShutdown
    \/ HarnessShutdownReturn
    \/ LogStartingServer
    \/ ListenAfterShutdown
    \/ ListenOk
    \/ ListenBindFail
    \/ ServeClosed
    \/ ServeRuntimeError
    \/ ServeFatal
    \/ ServeDone
    \/ RequestArrive
    \/ RequestDone
    \/ Tick

ServerInit == LifecycleStart({"harness"}) /\ EnvIdle /\ LibIdle

ServerSpec == ServerInit /\ [][ServerNext]_vars

\* ------------------------------------------------- a client of package env
\* A caller in a process whose environment and working directory are given:
\* it calls LoadEnvFiles and the getters in any order.

Call(op, k) == [NoCall EXCEPT !.op = op, !.key = k]

\* env.LoadEnvFiles()
EnvLoadEnvFiles ==
    /\ environ' = LoadEnvFilesResult(environ, envPaas, envOverride)
    /\ ret' = Call("LoadEnvFiles", "K1")
    /\ UNCHANGED <<lifecycleVars, libVars, envPaas, envOverride>>

\* env.GetString(key, defaultValue)
CallGetString ==
    /\ \E k \in Keys, d \in StringDefaults :
        ret' = [Call("GetString", k) EXCEPT !.defS = d, !.resS = GetString(environ, k, d)]
    /\ UNCHANGED <<lifecycleVars, libVars, environ, envPaas, envOverride>>

\* env.GetBool(key, defaultValue)
CallGetBool ==
    /\ \E k \in Keys, d \in BOOLEAN :
        ret' = [Call("GetBool", k) EXCEPT !.defB = d, !.resB = GetBool(environ, k, d)]
    /\ UNCHANGED <<lifecycleVars, libVars, environ, envPaas, envOverride>>

\* env.GetInt(key, defaultValue)
CallGetInt ==
    /\ \E k \in Keys, d \in IntDefaults :
        ret' = [Call("GetInt", k) EXCEPT !.defI = d, !.resI = GetInt(environ, k, d)]
    /\ UNCHANGED <<lifecycleVars, libVars, environ, envPaas, envOverride>>

\* env.GetInt64(key, defaultValue)
CallGetInt64 ==
    /\ \E k \in Keys, d \in IntDefaults :
        ret' = [Call("GetInt64", k) EXCEPT !.defI = d, !.resI = GetInt64(environ, k, d)]
    /\ UNCHANGED <<lifecycleVars, libVars, environ, envPaas, envOverride>>

\* env.IsSet(key)
CallIsSet ==
    /\ \E k \in Keys : ret' = [Call("IsSet", k) EXCEPT !.resB = IsSet(environ, k)]
    /\ UNCHANGED <<lifecycleVars, libVars, environ, envPaas, envOverride>>

\* env.MustGetString(key); the caller recovers from the panic
CallMustGetString ==
    /\ \E k \in Keys :
        ret' = [Call("MustGetString", k) EXCEPT !.resS = MustGetString(environ, k).val,
                                                !.panic = MustGetString(environ, k).panic]
    /\ UNCHANGED <<lifecycleVars, libVars, environ, envPaas, envOverride>>

EnvNext ==
    \/ EnvLoadEnvFiles
    \/ CallMustGetString
    \/ CallGetString
    \/ CallGetBool
    \/ CallGetInt
    \/ CallGetInt64
    \/ CallIsSet

\* any environment, and any of the two files present or not
EnvInit ==
    /\ LifecycleStart({"harness"})
    /\ environ \in [Keys -> {Unset} \cup {SetTo(v) : v \in EnvValues}]
    /\ envPaas \in EnvFiles
    /\ envOverride \in EnvFiles
    /\ ret = NoCall
    /\ LibIdle

EnvSpec == EnvInit /\ [][EnvNext]_vars

\* ------------------------------------------ the router built by server.New
\* chi runs the middlewares in the order of the router.Use calls, the first
\* one outermost; a request goes down the chain to the route handler and
\* back up, or a panic of the handler travels up.

\* SetupMiddleware with the logging middleware registered before otelhttp
ChainLoggingBeforeTracing(enableCORS) ==
    (IF enableCORS THEN <<"CORS">> ELSE <<>>)
        \o <<"RequestID", "RealIP", "logging", "otelhttp", "Recoverer">>

\* func (s *Server) SetupMiddleware(enableCORS bool)
Chain(enableCORS) ==
    (IF enableCORS THEN <<"CORS">> ELSE <<>>)
        \o <<"RequestID", "RealIP", "otelhttp", "logging", "Recoverer">>

\* New: srv.SetupMiddleware(true)
ServerChain == Chain(TRUE)

\* what a request does: the handler returns, panics with an error value,
\* panics with http.ErrAbortHandler, or the request is a CORS preflight
RequestKinds == {"ok", "panic", "abort", "preflight"}

\* middleware.Recoverer recovers a panic, but panics again with
\* http.ErrAbortHandler when that is the value
Recovers(kind) == kind # "abort"

\* cors.Handler answers a preflight request itself, without calling next
AnswersItself(mw, kind) == mw = "CORS" /\ kind = "preflight"

\* the part of a middleware that runs before next.ServeHTTP: otelhttp puts
\* the span in the request context; loggingMiddleware reads the trace id
\* from trace.SpanFromContext(r.Context())
BeforeNext(mw, q) ==
    [q EXCEPT !.span = (q.span \/ mw = "otelhttp"),
              !.traceId = IF mw = "logging"
                          THEN (IF q.span THEN "valid" ELSE "zero")
                          ELSE q.traceId,
              !.visited = Append(q.visited, mw)]

\* the part that runs after next.ServeHTTP returned: loggingMiddleware
\* writes "HTTP request processed"
AfterNext(mw, q) ==
    [q EXCEPT !.entries = IF mw = "logging" THEN q.entries + 1 ELSE q.entries]

\* the server accepts a request
RouterArrive ==
    /\ \E r \in Reqs, k \in RequestKinds :
        /\ req[r].phase = "new"
        /\ req' = [req EXCEPT ![r] = [NoRequest EXCEPT !.phase = "down", !.idx = 1,
                                                        !.kind = k]]
    /\ UNCHANGED <<lifecycleVars, envVars, met, mreq, wk>>

\* the request enters the next middleware of the chain
RouterEnter ==
    /\ \E r \in Reqs :
        LET q == req[r]
            mw == ServerChain[q.idx]
            b == BeforeNext(mw, q) IN
        /\ q.phase = "down"
        /\ req' = [req EXCEPT ![r] =
                IF AnswersItself(mw, q.kind)
                THEN [b EXCEPT !.idx = q.idx - 1,
                               !.phase = IF q.idx = 1 THEN "done" ELSE "up"]
                ELSE [b EXCEPT !.idx = IF q.idx = Len(ServerChain) THEN q.idx
                                       ELSE q.idx + 1,
                               !.phase = IF q.idx = Len(ServerChain) THEN "handler"
                                         ELSE "down"]]
    /\ UNCHANGED <<lifecycleVars, envVars, met, mreq, wk>>

\* the route handler runs: it returns or it panics
RouterHandler ==
    /\ \E r \in Reqs :
        /\ req[r].phase = "handler"
        /\ req' = [req EXCEPT ![r].phase = IF req[r].kind = "ok" THEN "up" ELSE "panicUp"]
    /\ UNCHANGED <<lifecycleVars, envVars, met, mreq, wk>>

\* next.ServeHTTP returns into a middleware, which runs its remaining part
RouterReturn ==
    /\ \E r \in Reqs :
        LET q == req[r]
            a == AfterNext(ServerChain[q.idx], q) IN
        /\ q.phase = "up"
        /\ req' = [req EXCEPT ![r] =
                [a EXCEPT !.idx = q.idx - 1,
                          !.phase = IF q.idx = 1 THEN "done" ELSE "up"]]
    /\ UNCHANGED <<lifecycleVars, envVars, met, mreq, wk>>

\* a panic reaches a middleware: Recoverer's deferred function recovers it
\* (or panics again); the others have no recover, and the statements after
\* next.ServeHTTP are skipped. Past the outermost one net/http aborts the
\* request.
RouterPanic ==
    /\ \E r \in Reqs :
        LET q == req[r]
            mw == ServerChain[q.idx] IN
        /\ q.phase = "panicUp"
        /\ req' = [req EXCEPT ![r] =
                IF mw = "Recoverer" /\ Recovers(q.kind)
                THEN [q EXCEPT !.idx = q.idx - 1,
                               !.phase = IF q.idx = 1 THEN "done" ELSE "up"]
                ELSE [q EXCEPT !.idx = q.idx - 1,
                               !.phase = IF q.idx = 1 THEN "aborted" ELSE "panicUp"]]
    /\ UNCHANGED <<lifecycleVars, envVars, met, mreq, wk>>

RouterNext ==
    \/ RouterArrive
    \/ RouterEnter
    \/ RouterHandler
    \/ RouterReturn
    \/ RouterPanic

RouterInit == LifecycleStart({"harness"}) /\ EnvIdle /\ LibIdle

RouterSpec == RouterInit /\ [][RouterNext]_vars

\* ------------------------------------------------------- package metrics

\* `!m.config.Enabled || m.registry == nil`
Disabled(m) == ~m.enabled \/ m.registry = "nil"

\* func (m *Metrics) RegisterCollector(collector) error
RegisterCollector(m) == IF Disabled(m) THEN "nil" ELSE "registry.Register"

\* func (m *Metrics) MustRegisterCollector(collector)
MustRegisterCollector(m) == IF Disabled(m) THEN "nothing" ELSE "registry.MustRegister"

\* func (m *Metrics) Handler() http.Handler
Handler(m) == IF Disabled(m) THEN "404" ELSE "promhttp"

\* func (m *Metrics) Middleware(): the identity when disabled
Middleware(m) == IF ~m.enabled THEN "next" ELSE "measuring"

\* m.registry.MustRegister(...) on the registry of m: a nil *prometheus.Registry
\* is dereferenced
MustRegisterOn(m) == IF m.registry = "nil" THEN "panic" ELSE "metric"

\* CreateCounter without its `if !m.config.Enabled { return nil }`
CreateCounterNoGuard(m) == MustRegisterOn(m)
\* func (m *Metrics) CreateCounter(name, help, labels) *prometheus.CounterVec
CreateCounter(m) == IF ~m.enabled THEN "nil" ELSE MustRegisterOn(m)

\* func (m *Metrics) CreateHistogram(name, help, labels, buckets)
CreateHistogram(m) == IF ~m.enabled THEN "nil" ELSE MustRegisterOn(m)

\* func (m *Metrics) CreateGauge(name, help, labels)
CreateGauge(m) == IF ~m.enabled THEN "nil" ELSE MustRegisterOn(m)

\* func New() *Metrics, for either value of config.Enabled: the registry and
\* the HTTP metrics exist only when enabled
MetricsNew ==
    /\ ~met.made
    /\ \E en \in BOOLEAN :
        met' = [NoMetrics EXCEPT !.made = TRUE, !.enabled = en,
                                 !.registry = IF en THEN "set" ELSE "nil"]
    /\ UNCHANGED <<lifecycleVars, envVars, req, mreq, wk>>

\* m.GetConfig().Enabled = false: GetConfig returns the *Config of m
MetricsDisable ==
    /\ met.made /\ met.enabled
    /\ met' = [met EXCEPT !.enabled = FALSE, !.op = "none", !.res = "none"]
    /\ UNCHANGED <<lifecycleVars, envVars, req, mreq, wk>>

\* a call of op on m that gives res
MetricsCall(op, res) ==
    /\ met.made
    /\ met' = [met EXCEPT !.op = op, !.res = res]
    /\ UNCHANGED <<lifecycleVars, envVars, req, mreq, wk>>

CallRegisterCollector == MetricsCall("RegisterCollector", RegisterCollector(met))
CallMustRegisterCollector == MetricsCall("MustRegisterCollector", MustRegisterCollector(met))
CallHandler == MetricsCall("Handler", Handler(met))
CallCreateCounter == MetricsCall("CreateCounter", CreateCounter(met))
CallCreateHistogram == MetricsCall("CreateHistogram", CreateHistogram(met))
CallCreateGauge == MetricsCall("CreateGauge", CreateGauge(met))

\* router.Use(m.Middleware()): the middleware is built once, before requests
CallMiddleware ==
    /\ met.made /\ met.mw = "none"
    /\ met' = [met EXCEPT !.op = "Middleware", !.res = Middleware(met),
                           !.mw = Middleware(met)]
    /\ UNCHANGED <<lifecycleVars, envVars, req, mreq, wk>>

\* The handler built by Middleware() when enabled, one goroutine per request.
\* prometheus.Gauge.Inc and Dec are atomic read-modify-write operations.

\* start := time.Now(); m.httpInFlight.Inc(); defer m.httpInFlight.Dec();
\* next.ServeHTTP(ww, r) is entered
MwEnter ==
    /\ met.mw = "measuring"
    /\ \E r \in Reqs, o \in {"ok", "panic"} :
        /\ mreq[r].pc = "out"
        /\ mreq' = [mreq EXCEPT ![r] = [pc |-> "handler", outcome |-> o,
                                        incs |-> mreq[r].incs + 1, decs |-> mreq[r].decs]]
    /\ met' = [met EXCEPT !.gauge = met.gauge + 1]
    /\ UNCHANGED <<lifecycleVars, envVars, req, wk>>

\* the no-op middleware: the request goes to next itself
MwPassThrough ==
    /\ met.mw = "next"
    /\ \E r \in Reqs, o \in {"ok", "panic"} :
        /\ mreq[r].pc = "out"
        /\ mreq' = [mreq EXCEPT ![r].pc = "finished", ![r].outcome = o]
    /\ UNCHANGED <<lifecycleVars, envVars, req, met, wk>>

\* Dec called in a plain statement after the metrics are recorded, not deferred
MwHandlerDoneNoDefer ==
    /\ \E r \in Reqs :
        /\ mreq[r].pc = "handler"
        /\ mreq' = [mreq EXCEPT ![r].pc = IF mreq[r].outcome = "ok" THEN "record"
                                          ELSE "finished"]
    /\ UNCHANGED <<lifecycleVars, envVars, req, met, wk>>

\* next.ServeHTTP returns, or panics: then the statements that record the
\* metrics are skipped and only the deferred call runs
MwHandlerDone ==
    /\ \E r \in Reqs :
        /\ mreq[r].pc = "handler"
        /\ mreq' = [mreq EXCEPT ![r].pc = IF mreq[r].outcome = "ok" THEN "record"
                                          ELSE "deferred"]
    /\ UNCHANGED <<lifecycleVars, envVars, req, met, wk>>

\* m.httpRequestsTotal...Inc(); m.httpDuration...Observe(duration)
MwRecord ==
    /\ \E r \in Reqs :
        /\ mreq[r].pc = "record"
        /\ mreq' = [mreq EXCEPT ![r].pc = "deferred"]
    /\ UNCHANGED <<lifecycleVars, envVars, req, met, wk>>

\* the deferred m.httpInFlight.Dec() runs as the function returns or unwinds
MwDeferredDec ==
    /\ \E r \in Reqs :
        /\ mreq[r].pc = "deferred"
        /\ mreq' = [mreq EXCEPT ![r].pc = "finished", ![r].decs = mreq[r].decs + 1]
    /\ met' = [met EXCEPT !.gauge = met.gauge - 1]
    /\ UNCHANGED <<lifecycleVars, envVars, req, wk>>

MetricsNext ==
    \/ MetricsNew
    \/ MetricsDisable
    \/ CallRegisterCollector
    \/ CallMustRegisterCollector
    \/ CallHandler
    \/ CallCreateCounter
    \/ CallCreateHistogram
    \/ CallCreateGauge
    \/ CallMiddleware
    \/ MwEnter
    \/ MwPassThrough
    \/ MwHandlerDone
    \/ MwRecord
    \/ MwDeferredDec

MetricsInit == LifecycleStart({"harness"}) /\ EnvIdle /\ LibIdle

MetricsSpec == MetricsInit /\ [][MetricsNext]_vars

\* ------------------------------------------------- example.Worker.Run(ctx)

\* number of "Example worker tick" entries
Ticks(l) == Cardinality({i \in 1..Len(l) : l[i] = "Example worker tick"})

\* the caller of Run cancels ctx, or its deadline passes: ctx.Done() is
\* closed and ctx.Err() is non-nil from then on
CtxCancel ==
    /\ wk.ctxErr = "nil"
    /\ \E e \in {"canceled", "deadlineExceeded"} : wk' = [wk EXCEPT !.ctxErr = e]
    /\ UNCHANGED <<lifecycleVars, envVars, req, met, mreq>>

\* w.logger.Info(ctx, "Worker started")
WorkerStart ==
    /\ wk.pc = "idle"
    /\ wk' = [wk EXCEPT !.pc = "select", !.log = Append(wk.log, "Worker started")]
    /\ UNCHANGED <<lifecycleVars, envVars, req, met, mreq>>

\* a loop without the `case <-ctx.Done()`: the default branch is always taken
WorkerSelectIgnoresDone ==
    /\ wk.pc = "select"
    /\ Ticks(wk.log) < MaxTicks
    /\ wk' = [wk EXCEPT !.pc = "tick"]
    /\ UNCHANGED <<lifecycleVars, envVars, req, met, mreq>>

\* `return nil` in the ctx.Done() case
WorkerSelectReturnsNil ==
    /\ wk.pc = "select"
    /\ IF wk.ctxErr # "nil"
       THEN wk' = [wk EXCEPT !.pc = "returned", !.result = "nil",
                             !.log = Append(wk.log, "Worker stopped")]
       ELSE /\ Ticks(wk.log) < MaxTicks
            /\ wk' = [wk EXCEPT !.pc = "tick"]
    /\ UNCHANGED <<lifecycleVars, envVars, req, met, mreq>>

\* select { case <-ctx.Done(): log "Worker stopped"; return ctx.Err()
\*          default: ... }: default is taken only when ctx.Done() is not ready
WorkerSelect ==
    /\ wk.pc = "select"
    /\ IF wk.ctxErr # "nil"
       THEN wk' = [wk EXCEPT !.pc = "returned", !.result = wk.ctxErr,
                             !.log = Append(wk.log, "Worker stopped")]
       ELSE /\ Ticks(wk.log) < MaxTicks
            /\ wk' = [wk EXCEPT !.pc = "tick"]
    /\ UNCHANGED <<lifecycleVars, envVars, req, met, mreq>>

\* w.logger.Info(ctx, "Example worker tick"); time.Sleep begins
WorkerTick ==
    /\ wk.pc = "tick"
    /\ wk' = [wk EXCEPT !.pc = "sleep",
                         !.log = Append(wk.log, "Example worker tick"),
                         !.ticksAfterDone = IF wk.ctxErr # "nil"
                                            THEN wk.ticksAfterDone + 1
                                            ELSE wk.ticksAfterDone]
    /\ UNCHANGED <<lifecycleVars, envVars, req, met, mreq>>

\* time.Sleep(1 * time.Second) ends; it is not interrupted by the context
WorkerWake ==
    /\ wk.pc = "sleep"
    /\ wk' = [wk EXCEPT !.pc = "select"]
    /\ UNCHANGED <<lifecycleVars, envVars, req, met, mreq>>

\* the steps of the goroutine that runs Worker.Run
WorkerStep == WorkerStart \/ WorkerSelect \/ WorkerTick \/ WorkerWake

WorkerNext ==
    \/ CtxCancel
    \/ WorkerStart
    \/ WorkerSelect
    \/ WorkerTick
    \/ WorkerWake

WorkerInit == LifecycleStart({"harness"}) /\ EnvIdle /\ LibIdle

\* the goroutine of the worker is scheduled and its sleep ends; nothing
\* forces the context to be cancelled
WorkerSpec == WorkerInit /\ [][WorkerNext]_vars /\ WF_vars(WorkerStep)

Next ==
    \/ SetupTracingOk
    \/ SetupTracingFail
    \/ LaunchServer
    \/ SignalNotify
    \/ ReceiveQuit
    \/ LogShuttingDown
    \/ CallShutdown
    \/ ShutdownReturn
    \/ LogShutdownResult
    \/ TracerShutdown
    \/ MainReturn
    \/ LogStartingServer
    \/ ListenAfterShutdown
    \/ ListenOk
    \/ ListenBindFail
    \/ ServeClosed
    \/ ServeRuntimeError
    \/ ServeFatal
    \/ ServeDone
    \/ Signal
    \/ RequestArrive
    \/ RequestDone
    \/ Tick
    \/ PlatformRunCall
    \/ PlatformRunReturn
    \/ RunReturn
    \/ ObsShutdown
    \/ OsExit

Spec == Init /\ [][Next]_vars

\* The steps of the main goroutine and of the serving goroutine. The Go
\* scheduler runs every runnable goroutine, and the clock of the Shutdown
\* context advances; signals, requests and a failure of the running server
\* come from outside and are not forced to happen.
MainStep ==
    \/ SetupTracingOk \/ SetupTracingFail \/ LaunchServer \/ SignalNotify
    \/ ReceiveQuit \/ LogShuttingDown \/ CallShutdown \/ ShutdownReturn
    \/ LogShutdownResult \/ TracerShutdown \/ MainReturn

ServeStep ==
    \/ LogStartingServer \/ ListenAfterShutdown \/ ListenOk \/ ListenBindFail
    \/ ServeClosed \/ ServeFatal \/ ServeDone

FairSpec ==
    /\ Init /\ [][Next]_vars
    /\ WF_vars(MainStep)
    /\ WF_vars(ServeStep)
    /\ WF_vars(Tick)

\* ------------------------------------------------------------------ claims

InLog(e) == \E i \in 1..Len(log) : log[i] = e

\* main has not yet taken a signal from quit
PreShutdownPcs == {"setupTracing", "startServer", "notify", "wait"}

\* main has taken a signal from quit
PostReceivePcs == ShutdownPcs \cup {"deferred", "mainReturn"}

\* C1: when in-flight requests are still outstanding at the 30 second
\* deadline, Shutdown returns a timeout error and the process exits with
\* status 1, never 0.
C1_TimeoutExitsWithFailure ==
    (variant = "standalone" /\ exited /\ shutdownErr = "timeout") => exitStatus = 1

\* C2: signal.Notify is in force before the serving goroutine is launched.
C2_NotifyBeforeServerStart ==
    srvPc # "idle" => notified

\* C3: when a signal is delivered while the server is serving, the
\* coordinator invokes Shutdown exactly once.
C3_ShutdownExactlyOnce ==
    /\ shutdownCalls <= 1
    /\ (variant = "standalone" /\ exited /\ sigWhileServing) => shutdownCalls = 1

C5_ServerClosedNotFatal ==
    /\ lasErr = "closed" => /\ shutdownCalls = 1
                            /\ srvPc \in {"returned", "done"}
                            /\ exitCause # "fatal"
                            /\ ~InLog("Failed to start server")
    /\ srvPc = "fatal" => lasErr \in {"bind", "runtime"}
    /\ srvPc = "done" => lasErr = "closed"

C5_Witness ==
    /\ srvPc = "done" /\ lasErr = "closed" /\ shutdownCalls = 1
    /\ exited /\ exitStatus = 0

\* C6 (as stated): when the serving goroutine reports a fatal error the
\* process exits with status 1 and no shutdown log entry is emitted.
C6_FatalErrorNoShutdownLog ==
    srvPc = "fatal" => /\ exitStatus = 1
                       /\ ~InLog("Shutting down server...")
                       /\ ~InLog("Server exited gracefully")

\* C6 (amended): when the serving goroutine reports a fatal error the
\* process exits with status 1 at once, and from then on Shutdown is not
\* invoked and nothing is logged; a shutdown log entry is present only if
\* the coordinator had taken a termination signal before the fatal exit.
C6_FatalExitIsFinal ==
    /\ [](srvPc = "fatal" =>
            /\ exited /\ exitStatus = 1 /\ exitCause = "fatal"
            /\ (mainPc \in PreShutdownPcs =>
                    /\ shutdownCalls = 0
                    /\ ~InLog("Shutting down server...")
                    /\ ~InLog("Server exited gracefully")))
    /\ [][srvPc = "fatal" => UNCHANGED <<shutdownCalls, log, mainPc>>]_vars

C6_Witness ==
    /\ srvPc = "fatal" /\ lasErr = "runtime" /\ exitStatus = 1
    /\ InLog("Shutting down server...") /\ shutdownCalls = 0

C8_LeavesRunningOnlyOnSignalOrFatal ==
    variant = "standalone" =>
        /\ mainPc \notin PreShutdownPcs => sigCount > 0
        /\ (sigCount = 0 /\ srvPc # "fatal" /\ exitCause # "setupFatal")
                => (~exited /\ mainPc \in PreShutdownPcs)
        /\ (exited /\ mainPc \notin {"setupTracing", "startServer", "notify"})
                => /\ exitCause \in {"mainReturn", "fatal"}
                   /\ exitCause = "mainReturn" => (sigCount > 0 /\ shutdownCalls = 1)
                   /\ exitCause = "fatal" => IsFatal(lasErr)

C8_Witness ==
    /\ variant = "standalone" /\ exited /\ exitCause = "fatal"
    /\ mainPc = "wait" /\ sigCount = 0

\* C9: the exit status is always 0 or 1: 0 exactly on a graceful stop, 1 on
\* every error path (bind failure, fatal runtime error, shutdown timeout);
\* run() yields ExitCodeFailure exactly when platform.Run returned an error.
GracefulStop ==
    IF variant = "standalone"
    THEN exitCause = "mainReturn" /\ shutdownErr = "nil"
    ELSE runErr = "nil"

C9_ExitStatusMapping ==
    (exited /\ exitCause # "signalDefault") =>
        /\ exitStatus \in {0, 1}
        /\ exitStatus = 0 <=> GracefulStop

\* C10: a further signal delivered while a shutdown is in progress changes
\* nothing the execution shows: no second Shutdown, the log, the positions of
\* both goroutines and the exit status are those of the same execution
\* without that signal, and main never waits on quit again.
C10_SecondSignalIgnored ==
    /\ [](shutdownCalls <= 1)
    /\ [][(sigCount' = sigCount + 1 /\ mainPc \in PostReceivePcs)
            => UNCHANGED <<mainPc, srvPc, log, exitVars, serverVars, notified,
                           tracerShutdowns>>]_vars
    /\ [][(mainPc \in PostReceivePcs) => (mainPc' \in PostReceivePcs)]_vars

C10_Witness ==
    /\ sigDuringShutdown /\ sigCount = 2 /\ shutdownCalls = 1
    /\ exited /\ exitCause = "mainReturn"

\* C11: when both a termination signal and a fatal server error occur, in any
\* order, the process terminates; it exits through the fatal path exactly when
\* the serving goroutine got to log.Fatal first, and otherwise through the
\* signal (main returning, or the default disposition before Notify).
C11_SignalAndFatalTerminate ==
    /\ [](exited /\ sigCount > 0 /\ lasErr \in {"bind", "runtime"} =>
            /\ exitCause \in {"fatal", "mainReturn", "signalDefault"}
            /\ (srvPc = "fatal") <=> (exitCause = "fatal"))
    /\ (variant = "standalone" /\ sigCount > 0 /\ lasErr \in {"bind", "runtime"}) ~> exited

\* both events occurred and the signal path won the race
C11_Witness ==
    /\ exited /\ sigCount > 0 /\ lasErr \in {"bind", "runtime"}
    /\ exitCause = "mainReturn" /\ srvPc = "returned"

\* C12: once the coordinator has taken a signal from quit it finishes: Shutdown
\* returns only when no request is in flight or when the 30 seconds of its
\* context have passed, it never outlasts the 30 seconds, and gracefulShutdown
\* returns (or the process has exited meanwhile).
C12_CoordinatorFinishesWithinDeadline ==
    /\ [](mainPc = "inShutdown" => elapsed <= ShutdownTimeout)
    /\ [](shutdownErr = "nil" => inflight = 0)
    /\ [](shutdownErr = "timeout" => elapsed = ShutdownTimeout)
    /\ [][(mainPc = "inShutdown" /\ mainPc' = "afterShutdown") =>
            (inflight = 0 \/ elapsed = ShutdownTimeout)]_vars
    /\ (mainPc \in ShutdownPcs) ~> (mainPc \in {"deferred", "mainReturn"} \/ exited)

\* gracefulShutdown returned at the deadline with a request still in flight
C12_Witness ==
    /\ mainPc = "deferred" /\ shutdownErr = "timeout"
    /\ inflight > 0 /\ elapsed = ShutdownTimeout

\* Start was never called, or ListenAndServe failed to bind
NeverStarted == srvPc = "idle" \/ lasErr = "bind"

Precedes(a, b) ==
    \A j \in 1..Len(log) : log[j] = b => \E i \in 1..(j - 1) : log[i] = a

\* C14: "Shutting down server..." is logged only after the coordinator took a
\* signal from quit and before Shutdown is called; "Server exited gracefully"
\* only after Shutdown returned nil, "Server forced to shutdown" only after it
\* returned an error, each after the shutdown-started entry and never both; in
\* the platform based entry point "Service stopped gracefully" is logged only
\* after platform.Run returned nil.
C14_LifecycleLogOrdered ==
    /\ InLog("Shutting down server...") => (recvSig # "none" /\ mainPc \in PostReceivePcs)
    /\ (variant = "standalone" /\ shutdownCalls > 0) => InLog("Shutting down server...")
    /\ mainPc = "callShutdown" => (InLog("Shutting down server...") /\ shutdownCalls = 0)
    /\ InLog("Server exited gracefully") => (shutdownErr = "nil" /\ shutdownCalls = 1)
    /\ InLog("Server forced to shutdown") => (shutdownErr = "timeout" /\ shutdownCalls = 1)
    /\ ~(InLog("Server exited gracefully") /\ InLog("Server forced to shutdown"))
    /\ Precedes("Shutting down server...", "Server exited gracefully")
    /\ Precedes("Shutting down server...", "Server forced to shutdown")
    /\ InLog("Service stopped gracefully") => runErr = "nil"

\* a run on the signal path that logged both entries, in this order
C14_Witness ==
    /\ variant = "standalone" /\ exited /\ exitCause = "mainReturn"
    /\ InLog("Shutting down server...") /\ InLog("Server exited gracefully")
    /\ Precedes("Shutting down server...", "Server exited gracefully")

\* C15: SIGINT and SIGTERM are handled identically: whichever of the two was
\* delivered, the coordinator has taken the same steps (the shutdown-started
\* entry and one Shutdown call before it returns), and the exit status of the
\* process is the same for both signals.
C15_SignalsHandledIdentically ==
    /\ (recvSig # "none" /\ mainPc \in {"afterShutdown", "deferred", "mainReturn"}) =>
            (InLog("Shutting down server...") /\ shutdownCalls = 1)
    /\ \A i \in 1..Len(log) : log[i] \notin Signals
    /\ (exited /\ exitCause = "mainReturn") => exitStatus = 0
    /\ (exited /\ exitCause = "signalDefault") =>
            \A s \in Signals : exitStatus = SignalExitStatus(s)

\* ListenAndServe has returned
ServeReturnedPcs == {"returned", "fatal", "done"}

\* C16: no lifecycle error is retried: once ListenAndServe has returned it is
\* not called again, once Shutdown has returned it is not called again (it is
\* called at most once), and after either has returned an error the process
\* terminates.
C16_LifecycleErrorsNotRetried ==
    /\ [][(srvPc \in ServeReturnedPcs) => (srvPc' \in ServeReturnedPcs)]_vars
    /\ [][(lasErr # "none") => (lasErr' = lasErr)]_vars
    /\ [](shutdownCalls <= 1)
    /\ [][(shutdownErr # "none") =>
            (shutdownCalls' = shutdownCalls /\ shutdownErr' = shutdownErr
             /\ mainPc' \notin {"callShutdown", "inShutdown"})]_vars
    /\ (lasErr # "none") ~> exited
    /\ (shutdownErr = "timeout") ~> exited

\* Shutdown returned the deadline error, ListenAndServe returned, neither was
\* called a second time and the process has terminated
C16_Witness ==
    /\ exited /\ shutdownErr = "timeout" /\ lasErr = "closed"
    /\ shutdownCalls = 1 /\ srvPc = "done"

\* C17: after LoadEnvFiles with both files present, a key that was not in the
\* environment and is defined in .env.override has the .env.override value
\* (also when .env.paas defines it too), and one defined only in .env.paas has
\* the .env.paas value; with neither file present LoadEnvFiles returns and
\* leaves the environment as it was.
C17_LoadEnvFilesPrecedence ==
    [][(ret'.op = "LoadEnvFiles" /\ ret.op # "LoadEnvFiles") =>
        /\ (envPaas.exists /\ envOverride.exists) =>
              \A k \in Keys : ~IsSet(environ, k) =>
                 /\ k \in envOverride.keys => environ'[k] = SetTo(OverrideValue)
                 /\ k \in envPaas.keys \ envOverride.keys => environ'[k] = SetTo(PaasValue)
                 /\ k \notin envPaas.keys \cup envOverride.keys => environ'[k] = Unset
        /\ (~envPaas.exists /\ ~envOverride.exists) => environ' = environ
        /\ ~exited']_vars

\* LoadEnvFiles has run with K1 in both files and K2 only in .env.paas
C17_Witness ==
    /\ ret.op = "LoadEnvFiles"
    /\ envPaas = [exists |-> TRUE, keys |-> {"K1", "K2"}]
    /\ envOverride = [exists |-> TRUE, keys |-> {"K1"}]
    /\ environ["K1"] = SetTo(OverrideValue) /\ environ["K2"] = SetTo(PaasValue)

\* the variable named by the last call, as the environment holds it
RetVar == environ[ret.key]
DefaultingGetters == {"GetString", "GetBool", "GetInt", "GetInt64"}

\* C18: GetString, GetBool, GetInt and GetInt64 return the supplied default
\* when the variable is unset and when it is set to the empty string;
\* GetString returns a non-empty value unchanged; a getter call leaves the
\* environment as it was.
C18_GettersDefaultOnUnsetOrEmpty ==
    /\ []((ret.op \in DefaultingGetters /\ (~RetVar.set \/ RetVar.val = <<>>)) =>
            /\ ret.op = "GetString" => ret.resS = ret.defS
            /\ ret.op = "GetBool" => ret.resB = ret.defB
            /\ ret.op \in {"GetInt", "GetInt64"} => ret.resI = ret.defI)
    /\ []((ret.op = "GetString" /\ RetVar.set /\ RetVar.val # <<>>) =>
            ret.resS = RetVar.val)
    /\ [][(ret'.op \in DefaultingGetters \cup {"IsSet"}) => (environ' = environ)]_vars

\* GetString was called with default "d" for a variable set to ""
C18_Witness ==
    /\ ret.op = "GetString" /\ RetVar = [set |-> TRUE, val |-> <<>>]
    /\ ret.defS = <<"d">> /\ ret.resS = <<"d">>

TrueLiterals == {<<"t", "r", "u", "e">>, <<"1">>, <<"y", "e", "s">>, <<"o", "n">>}
FalseLiterals == {<<"f", "a", "l", "s", "e">>, <<"0">>, <<"n", "o">>, <<"o", "f", "f">>}

\* C19: GetBool returns true for exactly "true", "1", "yes", "on", false for
\* exactly "false", "0", "no", "off", and the supplied default for every other
\* value, "TRUE" and arbitrary strings included.
C19_GetBoolLiterals ==
    ret.op = "GetBool" =>
        /\ (RetVar.set /\ RetVar.val \in TrueLiterals) => ret.resB = TRUE
        /\ (RetVar.set /\ RetVar.val \in FalseLiterals) => ret.resB = FALSE
        /\ (~RetVar.set \/ RetVar.val \notin TrueLiterals \cup FalseLiterals) =>
              ret.resB = ret.defB

\* GetBool was called with default false for a variable set to "TRUE"
C19_Witness ==
    /\ ret.op = "GetBool" /\ RetVar = [set |-> TRUE, val |-> <<"T", "R", "U", "E">>]
    /\ ret.defB = FALSE /\ ret.resB = FALSE

\* C20: IsSet is true exactly when the variable exists in the environment, also
\* when its value is the empty string, and false when it is unset; for a
\* variable set to "" GetString still returns the default.
C20_IsSetIffExists ==
    /\ ret.op = "IsSet" => (ret.resB <=> RetVar.set)
    /\ (ret.op = "IsSet" /\ RetVar = [set |-> TRUE, val |-> <<>>]) => ret.resB = TRUE
    /\ (ret.op = "IsSet" /\ RetVar = [set |-> FALSE, val |-> <<>>]) => ret.resB = FALSE
    /\ (ret.op = "GetString" /\ RetVar = [set |-> TRUE, val |-> <<>>]) =>
            ret.resS = ret.defS

\* IsSet was called for a variable set to "" and returned true
C20_Witness ==
    /\ ret.op = "IsSet" /\ RetVar = [set |-> TRUE, val |-> <<>>] /\ ret.resB = TRUE

\* C21: MustGetString returns the variable's value when it is set to a
\* non-empty string and panics when the variable is not set; a call that
\* returns never returns the empty string.
C21_MustGetStringValueOrPanic ==
    ret.op = "MustGetString" =>
        /\ (RetVar.set /\ RetVar.val # <<>>) => (~ret.panic /\ ret.resS = RetVar.val)
        /\ ~RetVar.set => ret.panic
        /\ ~ret.panic => ret.resS # <<>>

\* MustGetString panicked on an unset variable
C21_Witness ==
    /\ ret.op = "MustGetString" /\ ~RetVar.set /\ ret.panic

\* the caller of the launch has come to its blocking receive, or further
AtOrPastWait == mainPc \in {"wait"} \cup PostReceivePcs

\* C22 as stated: once the serving goroutine is launched the caller reaches
\* its blocking receive in every execution in which no signal is delivered,
\* whether ListenAndServe keeps serving or fails.
C22_CallerAlwaysReachesWait ==
    (variant = "standalone" /\ srvPc = "launched") ~> (AtOrPastWait \/ sigCount > 0)

\* C22 amended: the launch returns in the step that creates the goroutine, the
\* goroutine is created once, and the caller reaches its blocking receive
\* unless the process exits first.
C22_LaunchDoesNotBlockCaller ==
    /\ [][(srvPc = "idle" /\ srvPc' # "idle") =>
            (srvPc' = "launched" /\ mainPc = "startServer" /\ mainPc' = "notify")]_vars
    /\ [][(srvPc # "idle") => (srvPc' # "idle")]_vars
    /\ (variant = "standalone" /\ srvPc = "launched") ~> (AtOrPastWait \/ exited)

\* the caller blocks on the signal although ListenAndServe has already failed
C22_Witness ==
    /\ mainPc = "wait" /\ ~exited /\ srvPc = "returned" /\ lasErr = "bind"

\* the request has gone through the logging middleware's first part
EnteredLogging(r) == req[r].traceId # "unread"

\* C23: for every request otelhttp runs before the logging middleware, so
\* the span is in the request context when the logging middleware reads it,
\* and the middlewares are entered in the order CORS, RequestID, RealIP,
\* tracing, logging, Recoverer.
C23_TracingBeforeLogging ==
    \A r \in Reqs :
        /\ EnteredLogging(r) => (req[r].traceId = "valid" /\ req[r].span)
        /\ \A i, j \in 1..Len(req[r].visited) :
              (req[r].visited[i] = "logging" /\ req[r].visited[j] = "otelhttp") => j < i
        /\ req[r].visited =
              SubSeq(<<"CORS", "RequestID", "RealIP", "otelhttp", "logging", "Recoverer">>,
                     1, Len(req[r].visited))

\* a request went through the whole chain and was logged with its trace id
C23_Witness ==
    \E r \in Reqs :
        /\ req[r].phase = "done" /\ req[r].kind = "ok"
        /\ Len(req[r].visited) = 6 /\ req[r].traceId = "valid"

C24_DisabledMetricsAreNoOps ==
    (met.made /\ ~met.enabled /\ met.registry = "nil") =>
        /\ met.res # "panic"
        /\ met.op = "Middleware" => met.res = "next"
        /\ met.op = "Handler" => met.res = "404"
        /\ met.op = "RegisterCollector" => met.res = "nil"
        /\ met.op = "MustRegisterCollector" => met.res = "nothing"
        /\ met.op \in {"CreateCounter", "CreateHistogram", "CreateGauge"} => met.res = "nil"
        /\ met.mw \in {"none", "next"}
        /\ met.gauge = 0

\* CreateCounter was called on a disabled Metrics with a nil registry
C24_Witness ==
    /\ met.made /\ ~met.enabled /\ met.registry = "nil"
    /\ met.op = "CreateCounter" /\ met.res = "nil"

\* the requests that are inside the measuring middleware
InMiddleware == {r \in Reqs : mreq[r].pc \in {"handler", "record", "deferred"}}

\* C28: the in-flight gauge equals the number of requests inside the metrics
\* middleware, is never negative, is 0 when no request is in progress, and is
\* decremented exactly once for each request that incremented it, also when
\* the handler panicked.
C28_InFlightGaugeBalanced ==
    /\ met.gauge = Cardinality(InMiddleware)
    /\ met.gauge >= 0
    /\ InMiddleware = {} => met.gauge = 0
    /\ \A r \in Reqs :
          /\ mreq[r].decs <= mreq[r].incs /\ mreq[r].incs <= 1
          /\ mreq[r].pc = "finished" => mreq[r].decs = mreq[r].incs

\* two requests interleaved, one of them panicked, and the gauge is back at 0
C28_Witness ==
    /\ met.gauge = 0 /\ met.mw = "measuring"
    /\ \E r1, r2 \in Reqs :
          /\ r1 # r2
          /\ mreq[r1].pc = "finished" /\ mreq[r1].outcome = "panic" /\ mreq[r1].decs = 1
          /\ mreq[r2].pc = "finished" /\ mreq[r2].outcome = "ok" /\ mreq[r2].decs = 1

\* C26: Worker.Run returns only after its context is done: while it is not
\* done Run has not returned and the worker is in its tick loop, and the
\* value returned is ctx.Err(), which is not nil.
C26_WorkerReturnsOnlyAfterCancel ==
    /\ wk.ctxErr = "nil" => (wk.pc # "returned" /\ wk.result = "none")
    /\ wk.pc = "returned" <=> wk.result # "none"
    /\ wk.pc = "returned" => (wk.result = wk.ctxErr /\ wk.result # "nil")

\* Run returned the error of a context whose deadline passed, after ticking
C26_Witness ==
    /\ wk.pc = "returned" /\ wk.result = "deadlineExceeded" /\ Ticks(wk.log) >= 2

\* C27: once its context is done Worker.Run returns, after at most one more
\* tick; its log is "Worker started" once and first, then ticks, then
\* "Worker stopped" once and last, exactly when Run has returned.
C27_WorkerStopsAfterCancel ==
    /\ (wk.ctxErr # "nil" /\ wk.pc # "idle") ~> (wk.pc = "returned")
    /\ [](wk.ticksAfterDone <= 1)
    /\ [](\A i \in 1..Len(wk.log) :
            /\ wk.log[i] = "Worker started" <=> i = 1
            /\ wk.log[i] = "Worker stopped" => (i = Len(wk.log) /\ wk.pc = "returned"))
    /\ []((wk.pc = "returned") =>
            (Len(wk.log) >= 2 /\ wk.log[Len(wk.log)] = "Worker stopped"))
    /\ [](wk.pc # "idle" => (Len(wk.log) >= 1 /\ wk.log[1] = "Worker started"))
    /\ [][(wk.pc = "returned") => (wk' = wk)]_vars

\* the context was cancelled during a tick that was then still logged, and
\* Run returned after it
C27_Witness ==
    /\ wk.pc = "returned" /\ wk.ticksAfterDone = 1
    /\ wk.log[Len(wk.log)] = "Worker stopped"

\* the coordinator has returned: gracefulShutdown in the standalone main,
\* platform.Run in run()
CoordinatorReturned ==
    \/ /\ variant = "standalone"
       /\ \E i \in 1..Len(log) :
              log[i] \in {"Server forced to shutdown", "Server exited gracefully"}
    \/ variant = "platform" /\ runErr # "none" /\ mainPc # "runReturned"

====
